---------------------------- MODULE Spec2Model ----------------------------
(***************************************************************************)
(* A model of the circus crate: the arithmetic constraint system of        *)
(* r1cs.rs, the direct-evaluation backend of system.rs, the binary         *)
(* emulation layer of binary.rs and the SHA-256 gadget of                  *)
(* crypto/hash/sha2.rs.                                                    *)
(*                                                                         *)
(* Three specifications share the module's variables:                      *)
(*   Spec     calls on one ArithmeticSystem<F>                             *)
(*   SpecBin  calls on BinaryEmulate<Eval>                                 *)
(*   SpecSha  one run of sha256_update on Eval, one loop iteration a step  *)
(*   SpecFmt  format!("{}", hasher) on a hash state                        *)
(***************************************************************************)
EXTENDS Integers, Sequences, FiniteSets, TLC

VARIABLES
    p,            \* the characteristic of the field F of ArithmeticSystem<F>
    num_vars,     \* ArithmeticSystem.num_vars
    constraints,  \* ArithmeticSystem.constraints
    last,         \* the last call on the system: its name, arguments, outcome
    returned,     \* history: the indices declare() has returned, in order
    bin,          \* the last call on BinaryEmulate<Eval>: name, arguments, outcome
    pc,           \* sha256_update: the position in the function
    chunk,        \* sha256_update: the chunk argument
    hasher,       \* sha256_update: the hasher argument (Sha256.0)
    w,            \* sha256_update: the message schedule
    wv,           \* sha256_update: the working variables a..h
    i,            \* sha256_update: the loop index
    rendered      \* format!("{}", hasher): the text Display wrote

vars == <<p, num_vars, constraints, last, returned, bin, pc, chunk, hasher, w, wv, i,
          rendered>>

r1csVars == <<p, num_vars, constraints, last, returned>>
binVars == <<bin>>
shaVars == <<pc, chunk, hasher, w, wv, i, rendered>>

(***************************************************************************)
(* Bounds of the model.                                                    *)
(***************************************************************************)
MaxVars == 2
MaxConstraints == 2

(***************************************************************************)
(* The outcome of a call: it returns a value, or it panics and unwinds.    *)
(***************************************************************************)
Ok(v) == [kind |-> "ok", value |-> v]
Panic(msg) == [kind |-> "panic", value |-> msg]
Todo == Panic("not yet implemented")
Unit == <<>>

Max(x, y) == IF x >= y THEN x ELSE y

(***************************************************************************)
(* The field F (the ff crate): the prime field of characteristic chr, its  *)
(* elements 0 .. chr-1.                                                    *)
(***************************************************************************)
Characteristics == {2, 3}
F_zero == 0
F_one == 1
F_add(chr, x, y) == (x + y) % chr
F_is_zero_vartime(x) == x = 0

(***************************************************************************)
(* r1cs.rs: LinearFormula, ProductConstraint                               *)
(***************************************************************************)
NoCoeffs == [k \in {} |-> 0]

LinearFormula_constant(value) == [constant_term |-> value, coeffs |-> NoCoeffs]

MaxOf(S) == CHOOSE k \in S : \A j \in S : j <= k

\* coeffs.keys().rev().next().map(|k| k + 1).unwrap_or(0)
LinearFormula_dim(f) ==
    IF DOMAIN f.coeffs = {} THEN 0 ELSE MaxOf(DOMAIN f.coeffs) + 1

\* impl Add for &LinearFormula: todo!()
LinearFormula_add(lhs, rhs) == Todo

\* impl Sub for &LinearFormula: todo!()
LinearFormula_sub(lhs, rhs) == Todo

ProductConstraint(a, b, r) == [operand_a |-> a, operand_b |-> b, result |-> r]

ProductConstraint_dim_no_result(c) ==
    Max(LinearFormula_dim(c.operand_a), LinearFormula_dim(c.operand_b))

ProductConstraint_dim(c) ==
    Max(Max(LinearFormula_dim(c.operand_a), LinearFormula_dim(c.operand_b)),
        LinearFormula_dim(c.result))

(***************************************************************************)
(* r1cs.rs: ArithmeticSystem.  A call takes the system and returns the     *)
(* system after the call with the call's outcome.                          *)
(***************************************************************************)
System(n, cs) == [num_vars |-> n, constraints |-> cs]

ArithmeticSystem_new == System(0, <<>>)

declare_off_by_one(sys) ==
    [sys |-> System(sys.num_vars + 1, sys.constraints), ret |-> Ok(sys.num_vars + 1)]

ArithmeticSystem_declare(sys) ==
    LET index == sys.num_vars
    IN  [sys |-> System(sys.num_vars + 1, sys.constraints), ret |-> Ok(index)]

satisfy_push_first(sys, constraint) ==
    IF ProductConstraint_dim(constraint) <= sys.num_vars
    THEN [sys |-> System(sys.num_vars, Append(sys.constraints, constraint)),
          ret |-> Ok(Unit)]
    ELSE [sys |-> System(sys.num_vars, Append(sys.constraints, constraint)),
          ret |-> Panic("assertion failed: constraint.dim() <= self.num_vars")]

ArithmeticSystem_satisfy(sys, constraint) ==
    IF ProductConstraint_dim(constraint) <= sys.num_vars
    THEN [sys |-> System(sys.num_vars, Append(sys.constraints, constraint)),
          ret |-> Ok(Unit)]
    ELSE [sys |-> sys,
          ret |-> Panic("assertion failed: constraint.dim() <= self.num_vars")]

\* SystemRepr<bool>::constant
ArithmeticSystem_constant(value) ==
    LinearFormula_constant(IF value THEN F_one ELSE F_zero)

\* SystemNot<bool>::not: &LinearFormula::constant(F::one()) - value
ArithmeticSystem_not(sys, value) ==
    [sys |-> sys, ret |-> LinearFormula_sub(LinearFormula_constant(F_one), value)]

\* SystemBitAnd<bool>::and: todo!()
ArithmeticSystem_and(sys, a, b) == [sys |-> sys, ret |-> Todo]

\* SystemBitOr<bool>::or: a panic in a step unwinds out of the call
ArithmeticSystem_or(sys, a, b) ==
    LET na == ArithmeticSystem_not(sys, a)
    IN  IF na.ret.kind = "panic" THEN na ELSE
        LET nb == ArithmeticSystem_not(na.sys, b)
        IN  IF nb.ret.kind = "panic" THEN nb ELSE
            LET r == ArithmeticSystem_and(nb.sys, na.ret.value, nb.ret.value)
            IN  IF r.ret.kind = "panic" THEN r ELSE
                ArithmeticSystem_not(r.sys, r.ret.value)

\* SystemBitXor<bool>::xor
ArithmeticSystem_xor(chr, sys, a, b) ==
    IF F_is_zero_vartime(F_add(chr, F_one, F_one))
    THEN [sys |-> sys, ret |-> LinearFormula_add(a, b)]
    ELSE [sys |-> sys, ret |-> Todo]

(***************************************************************************)
(* The arguments the calls are made with.                                  *)
(***************************************************************************)
Var(k) == [constant_term |-> F_zero, coeffs |-> [j \in {k} |-> F_one]]
Sum(k, l) == [constant_term |-> F_one, coeffs |-> [j \in {k, l} |-> F_one]]

\* dims 0, 1 and MaxVars
InputFormulas == {LinearFormula_constant(F_one), Var(0), Sum(0, MaxVars - 1)}

\* constraints that refer to variables in at most one of their three places
InputConstraints ==
    {ProductConstraint(t[1], t[2], t[3]) :
        t \in {u \in InputFormulas \X InputFormulas \X InputFormulas :
                 Cardinality({k \in 1..3 : u[k] # LinearFormula_constant(F_one)}) <= 1}}

BoolInputs == {ArithmeticSystem_constant(FALSE), ArithmeticSystem_constant(TRUE), Var(0)}

Sys == System(num_vars, constraints)

\* A call with &mut self.  A panic unwinds out of the call and leaves the
\* system as the call had made it by then; whoever still holds the system
\* (across catch_unwind, or in a test harness) sees that system.
Call(op, arg, out) ==
    /\ num_vars' = out.sys.num_vars
    /\ constraints' = out.sys.constraints
    /\ last' = [op |-> op, arg |-> arg, ret |-> out.ret]

IdleLast == [op |-> "new", arg |-> Unit, ret |-> Ok(Unit)]
IdleBin == [op |-> "new", arg |-> Unit, ret |-> Ok(Unit)]

R1csInit ==
    /\ p \in Characteristics
    /\ num_vars = ArithmeticSystem_new.num_vars
    /\ constraints = ArithmeticSystem_new.constraints
    /\ last = IdleLast
    /\ returned = <<>>

R1csIdle ==
    /\ p = 2
    /\ num_vars = 0
    /\ constraints = <<>>
    /\ last = IdleLast
    /\ returned = <<>>

Declare ==
    /\ num_vars < MaxVars
    /\ LET out == ArithmeticSystem_declare(Sys)
       IN  /\ Call("declare", Unit, out)
           /\ returned' = Append(returned, out.ret.value)
    /\ UNCHANGED <<p, bin, shaVars>>

Satisfy ==
    /\ \E c \in InputConstraints :
         /\ Len(constraints) < MaxConstraints
         /\ Call("satisfy", c, ArithmeticSystem_satisfy(Sys, c))
    /\ UNCHANGED <<p, returned, bin, shaVars>>

And ==
    /\ \E a, b \in BoolInputs :
         Call("and", <<a, b>>, ArithmeticSystem_and(Sys, a, b))
    /\ UNCHANGED <<p, returned, bin, shaVars>>

Or ==
    /\ \E a, b \in BoolInputs :
         Call("or", <<a, b>>, ArithmeticSystem_or(Sys, a, b))
    /\ UNCHANGED <<p, returned, bin, shaVars>>

Xor ==
    /\ \E a, b \in BoolInputs :
         Call("xor", <<a, b>>, ArithmeticSystem_xor(p, Sys, a, b))
    /\ UNCHANGED <<p, returned, bin, shaVars>>

Not ==
    /\ \E a \in BoolInputs :
         Call("not", <<a>>, ArithmeticSystem_not(Sys, a))
    /\ UNCHANGED <<p, returned, bin, shaVars>>

BinIdle == bin = IdleBin

ShaIdle ==
    /\ pc = "idle"
    /\ chunk = <<>>
    /\ hasher = <<>>
    /\ w = <<>>
    /\ wv = <<>>
    /\ i = 0
    /\ rendered = ""

Init ==R1csInit /\ BinIdle /\ ShaIdle

Next == Declare \/ Satisfy \/ And \/ Or \/ Xor \/ Not

Spec == Init /\ [][Next]_vars

(***************************************************************************)
(* What a handle evaluates to: the value of a linear formula under an      *)
(* assignment s of field elements to the declared variables, and the       *)
(* assignments that satisfy every constraint of a system.                  *)
(***************************************************************************)
RECURSIVE SumOver(_, _, _)
SumOver(f, s, K) ==
    IF K = {} THEN 0
    ELSE LET k == CHOOSE j \in K : TRUE
         IN  f.coeffs[k] * s[k] + SumOver(f, s, K \ {k})

EvalFormula(chr, f, s) == (f.constant_term + SumOver(f, s, DOMAIN f.coeffs)) % chr

Coeff(f, k) == IF k \in DOMAIN f.coeffs THEN f.coeffs[k] ELSE F_zero

Assignments(chr, n) == [0..(n - 1) -> 0..(chr - 1)]

Satisfies(chr, s, c) ==
    (EvalFormula(chr, c.operand_a, s) * EvalFormula(chr, c.operand_b, s)) % chr
        = EvalFormula(chr, c.result, s)

Satisfying(chr, n, cs) ==
    {s \in Assignments(chr, n) : \A k \in 1..Len(cs) : Satisfies(chr, s, cs[k])}

BoolOf(x) == IF x THEN F_one ELSE F_zero

(***************************************************************************)
(* C1: after any sequence of declare() and satisfy() calls from new(),     *)
(* every stored constraint refers, in operand_a, operand_b and result,     *)
(* only to variable indices below num_vars (its dim() is <= num_vars).     *)
(***************************************************************************)
C1_DimWithinDeclared ==
    \A k \in 1..Len(constraints) :
        \A f \in {constraints[k].operand_a, constraints[k].operand_b,
                  constraints[k].result} :
            \A j \in DOMAIN f.coeffs : j + 1 <= num_vars

C1_Witness ==
    /\ num_vars >= 2
    /\ Len(constraints) >= 2
    /\ \E k \in 1..Len(constraints) :
           LinearFormula_dim(constraints[k].result) = num_vars

(***************************************************************************)
(* C2: satisfy(constraint) with constraint.dim() > num_vars panics and     *)
(* leaves the constraint list and num_vars as they were; with              *)
(* constraint.dim() <= num_vars it appends exactly that constraint at the  *)
(* end and leaves num_vars and the earlier constraints unchanged.          *)
(***************************************************************************)
C2_SatisfyChecksThenAppends ==
    [][last'.op = "satisfy" =>
         IF ProductConstraint_dim(last'.arg) > num_vars
         THEN /\ last'.ret.kind = "panic"
              /\ constraints' = constraints
              /\ num_vars' = num_vars
         ELSE /\ last'.ret.kind = "ok"
              /\ constraints' = Append(constraints, last'.arg)
              /\ num_vars' = num_vars]_vars

C2_Witness ==
    /\ last.op = "satisfy"
    /\ last.ret.kind = "panic"
    /\ ProductConstraint_dim(last.arg) > num_vars
    /\ Len(constraints) >= 1

(***************************************************************************)
(* C3: the k-th declare() returns k-1, so the indices returned are         *)
(* strictly increasing and none is returned twice; num_vars never          *)
(* decreases; declare leaves the constraint list unchanged.                *)
(***************************************************************************)
C3_DeclareFresh ==
    [][/\ \A k \in 1..Len(returned') : returned'[k] = k - 1
       /\ \A k, l \in 1..Len(returned') : k < l => returned'[k] < returned'[l]
       /\ num_vars' >= num_vars
       /\ last'.op = "declare" =>
            /\ last'.ret = Ok(num_vars)
            /\ num_vars' = num_vars + 1
            /\ constraints' = constraints]_vars

C3_Witness ==
    /\ last.op = "declare"
    /\ Len(returned) >= 2
    /\ Len(constraints) >= 1

(***************************************************************************)
(* C7: and(a, b) adds exactly one variable c, appends exactly the          *)
(* constraint a * b = c, which passes the dim <= num_vars check, and       *)
(* returns the formula 0 + 1*c.                                            *)
(***************************************************************************)
C7_AndDeclaresAndConstrains ==
    [][last'.op = "and" =>
         /\ last'.ret.kind = "ok"
         /\ num_vars' = num_vars + 1
         /\ constraints' =
              Append(constraints,
                     ProductConstraint(last'.arg[1], last'.arg[2], Var(num_vars)))
         /\ last'.ret.value = Var(num_vars)
         /\ ProductConstraint_dim(constraints'[Len(constraints')]) <= num_vars']_vars

(***************************************************************************)
(* C8: or(a, b) on boolean constants a, b returns a handle that, under     *)
(* every assignment satisfying the system's constraints, evaluates to the  *)
(* field embedding of a OR b; and not(not(a)) evaluates to what a does.    *)
(***************************************************************************)
C8_OrIsDeMorgan ==
    [][/\ (last'.op = "or" /\ LinearFormula_dim(last'.arg[1]) = 0
                           /\ LinearFormula_dim(last'.arg[2]) = 0) =>
            /\ last'.ret.kind = "ok"
            /\ \A s \in Satisfying(p, num_vars', constraints') :
                 EvalFormula(p, last'.ret.value, s)
                   = BoolOf(last'.arg[1].constant_term = F_one
                              \/ last'.arg[2].constant_term = F_one)
       /\ (last'.op = "not" /\ LinearFormula_dim(last'.arg[1]) <= num_vars) =>
            /\ last'.ret.kind = "ok"
            /\ LET nn == ArithmeticSystem_not(System(num_vars', constraints'),
                                              last'.ret.value)
               IN  /\ nn.ret.kind = "ok"
                   /\ \A s \in Assignments(p, num_vars') :
                        EvalFormula(p, nn.ret.value, s)
                          = EvalFormula(p, last'.arg[1], s)]_vars

(***************************************************************************)
(* C9: xor(a, b) returns a handle that evaluates to a XOR b whenever a and *)
(* b evaluate to 0 or 1; in characteristic 2 it adds no variable and no    *)
(* constraint, in any other characteristic exactly one constraint.         *)
(***************************************************************************)
C9_XorByCharacteristic ==
    [][(last'.op = "xor" /\ LinearFormula_dim(last'.arg[1]) <= num_vars
                         /\ LinearFormula_dim(last'.arg[2]) <= num_vars) =>
         /\ last'.ret.kind = "ok"
         /\ \A s \in Satisfying(p, num_vars', constraints') :
              LET x == EvalFormula(p, last'.arg[1], s)
                  y == EvalFormula(p, last'.arg[2], s)
              IN  (x \in {0, 1} /\ y \in {0, 1}) =>
                    EvalFormula(p, last'.ret.value, s) = BoolOf(x # y)
         /\ IF (F_one + F_one) % p = 0
            THEN num_vars' = num_vars /\ constraints' = constraints
            ELSE Len(constraints') = Len(constraints) + 1]_vars

(***************************************************************************)
(* C10: not(handle) returns the formula 1 - handle and leaves num_vars and *)
(* the constraint list as they were.                                       *)
(***************************************************************************)
C10_NotIsOneMinus ==
    [][last'.op = "not" =>
         /\ num_vars' = num_vars
         /\ constraints' = constraints
         /\ last'.ret.kind = "ok"
         /\ last'.ret.value.constant_term
              = (F_one - last'.arg[1].constant_term) % p
         /\ \A k \in 0..MaxVars :
              Coeff(last'.ret.value, k) = (0 - Coeff(last'.arg[1], k)) % p]_vars


(***************************************************************************)
(* u32: a word is its 32 bits, bit k at index k (bit 0 the least           *)
(* significant).  U32(hi, lo) is the word hi * 2^16 + lo.                  *)
(***************************************************************************)
U32(hi, lo) ==
    [k \in 0..31 |-> IF k < 16 THEN (lo \div (2 ^ k)) % 2
                               ELSE (hi \div (2 ^ (k - 16))) % 2]

RECURSIVE BitsValue(_, _, _)
BitsValue(x, from, n) ==
    IF n = 0 THEN 0 ELSE x[from] + 2 * BitsValue(x, from + 1, n - 1)

Lo16(x) == BitsValue(x, 0, 16)
Hi16(x) == BitsValue(x, 16, 16)

U32Zero == U32(0, 0)

(***************************************************************************)
(* system.rs: Eval, the system that evaluates directly.  A handle is the   *)
(* value; every operation is the native one.                               *)
(***************************************************************************)
Eval_constant(value) == value

\* a.wrapping_add(*b)
Eval_wrapping_add(a, b) ==
    LET lo == Lo16(a) + Lo16(b)
        hi == Hi16(a) + Hi16(b) + (lo \div 65536)
    IN  U32(hi % 65536, lo % 65536)

\* a & b
Eval_and(a, b) == [k \in 0..31 |-> IF a[k] = 1 /\ b[k] = 1 THEN 1 ELSE 0]

\* a | b
Eval_or(a, b) == [k \in 0..31 |-> IF a[k] = 1 \/ b[k] = 1 THEN 1 ELSE 0]

\* a ^ b
Eval_xor(a, b) == [k \in 0..31 |-> IF a[k] # b[k] THEN 1 ELSE 0]

\* !value
Eval_not(value) == [k \in 0..31 |-> 1 - value[k]]

\* a << b
Eval_shl(a, b) == [k \in 0..31 |-> IF k >= b THEN a[k - b] ELSE 0]

\* a >> b
Eval_shr(a, b) == [k \in 0..31 |-> IF k + b <= 31 THEN a[k + b] ELSE 0]

\* a.rotate_left(b as u32)
Eval_rotl(a, b) == [k \in 0..31 |-> a[(k + 32 - (b % 32)) % 32]]

rotr_wrong_direction(a, b) == [k \in 0..31 |-> a[(k + 32 - (b % 32)) % 32]]

\* a.rotate_right(b as u32)
Eval_rotr(a, b) == [k \in 0..31 |-> a[(k + b) % 32]]

(***************************************************************************)
(* binary.rs: BinaryEmulate<Eval>.  A u32 handle is a tuple of 32 boolean  *)
(* handles of the wrapped system.                                          *)
(***************************************************************************)
\* SystemRepr<bool>::constant: self.0.constant(value)
BinaryEmulate_constant_bool(value) == Eval_constant(value)

\* SystemRepr<u32>::constant: array_init(|i| self.constant(value >> i != 0))
BinaryEmulate_constant(value) ==
    [k \in 0..31 |-> BinaryEmulate_constant_bool(Eval_shr(value, k) # U32Zero)]

\* SystemWrappingAdd<u32>::wrapping_add: todo!()
BinaryEmulate_wrapping_add(a, b) == Todo

\* the words the calls are made with
U32Samples ==
    {U32(0, 0), U32(0, 1), U32(0, 2), U32(0, 3), U32(0, 1234), U32(0, 5678),
     U32(0, 6912), U32(0, 65535), U32(1, 0), U32(32768, 0), U32(65535, 65535)}

BinConstant ==
    /\ \E v \in U32Samples :
         bin' = [op |-> "constant", arg |-> <<v>>,
                 ret |-> Ok(BinaryEmulate_constant(v))]
    /\ UNCHANGED <<r1csVars, shaVars>>

\* test_wrapping_add: the operands are constants of the system
BinWrappingAdd ==
    /\ \E x, y \in U32Samples :
         bin' = [op |-> "wrapping_add", arg |-> <<x, y>>,
                 ret |-> BinaryEmulate_wrapping_add(BinaryEmulate_constant(x),
                                                    BinaryEmulate_constant(y))]
    /\ UNCHANGED <<r1csVars, shaVars>>

BinInit == R1csIdle /\ BinIdle /\ ShaIdle

BinNext == BinConstant \/ BinWrappingAdd

SpecBin == BinInit /\ [][BinNext]_vars

(***************************************************************************)
(* C4: wrapping_add on constant(a) and constant(b) returns the 32-element  *)
(* tuple whose element k is bit k of (a + b) mod 2^32.                     *)
(***************************************************************************)
C4_WrappingAddIsSumMod2_32 ==
    bin.op = "wrapping_add" =>
        /\ bin.ret.kind = "ok"
        /\ \A k \in 0..31 :
             bin.ret.value[k] = (Eval_wrapping_add(bin.arg[1], bin.arg[2])[k] = 1)

(***************************************************************************)
(* C5: constant(v: u32) is the 32-element tuple whose element k is the     *)
(* boolean ((v >> k) & 1) = 1; distinct words give distinct tuples.        *)
(***************************************************************************)
C5_ConstantIsBitsLsbFirst ==
    bin.op = "constant" =>
        /\ bin.ret.kind = "ok"
        /\ \A k \in 0..31 :
             bin.ret.value[k] = (Eval_and(Eval_shr(bin.arg[1], k), U32(0, 1)) = U32(0, 1))
        /\ \A v \in U32Samples :
             v # bin.arg[1] => BinaryEmulate_constant(v) # bin.ret.value

(***************************************************************************)
(* crypto/hash/sha2.rs: Sha256 and sha256_update on Eval.                  *)
(***************************************************************************)
H ==
    <<
      U32(27145, 58983), U32(47975, 44677), U32(15470, 62322), U32(42319, 62778),
      U32(20750, 21119), U32(39685, 26764), U32(8067, 55723), U32(23520, 52505)
    >>

K ==
    <<
      U32(17034, 12184), U32(28983, 17553), U32(46528, 64463), U32(59829, 56229),
      U32(14678, 49755), U32(23025, 4593), U32(37439, 33444), U32(43804, 24277),
      U32(55303, 43672), U32(4739, 23297), U32(9265, 34238), U32(21772, 32195),
      U32(29374, 23924), U32(32990, 45566), U32(39900, 1703), U32(49563, 61812),
      U32(58523, 27073), U32(61374, 18310), U32(4033, 40390), U32(9228, 41420),
      U32(11753, 11375), U32(19060, 33962), U32(23728, 43484), U32(30457, 35034),
      U32(38974, 20818), U32(43057, 50797), U32(45059, 10184), U32(48985, 32711),
      U32(50912, 3059), U32(54695, 37191), U32(1738, 25425), U32(5161, 10599),
      U32(10167, 2693), U32(11803, 8504), U32(19756, 28156), U32(21304, 3347),
      U32(25866, 29524), U32(30314, 2747), U32(33218, 51502), U32(37490, 11397),
      U32(41663, 59553), U32(43034, 26187), U32(49739, 35696), U32(51052, 20899),
      U32(53650, 59417), U32(54937, 1572), U32(62478, 13701), U32(4202, 41072),
      U32(6564, 49430), U32(7735, 27656), U32(10056, 30540), U32(13488, 48309),
      U32(14620, 3251), U32(20184, 43594), U32(23452, 51791), U32(26670, 28659),
      U32(29839, 33518), U32(30885, 25455), U32(33992, 30740), U32(36039, 520),
      U32(37054, 65530), U32(42064, 27883), U32(48889, 41975), U32(50801, 30962)
    >>

Sha256_new == H

HexDigits == <<"0", "1", "2", "3", "4", "5", "6", "7",
               "8", "9", "a", "b", "c", "d", "e", "f">>

Nibble(x, j) == BitsValue(x, 4 * j, 4)

\* {:x} of a u32: lower-case hexadecimal, no padding, "0" for zero
RECURSIVE LowerHexFrom(_, _)
LowerHexFrom(x, j) ==
    IF j < 0 THEN "" ELSE HexDigits[Nibble(x, j) + 1] \o LowerHexFrom(x, j - 1)

LowerHex(x) ==
    IF x = U32Zero THEN "0"
    ELSE LowerHexFrom(x, CHOOSE j \in 0..7 :
                            /\ Nibble(x, j) # 0
                            /\ \A l \in (j + 1)..7 : Nibble(x, l) = 0)

\* impl Display for Sha256: "{:x}{:x}{:x}{:x}{:x}{:x}{:x}{:x}"
Sha256_fmt(s) ==
    LowerHex(s[1]) \o LowerHex(s[2]) \o LowerHex(s[3]) \o LowerHex(s[4])
        \o LowerHex(s[5]) \o LowerHex(s[6]) \o LowerHex(s[7]) \o LowerHex(s[8])

\* sha256_update, lines 61-76: the schedule word w[n]
ScheduleWord(ws, n) ==
    LET s0a == ws[n - 15]
        t0 == Eval_rotr(s0a, 7)
        t1 == Eval_rotr(s0a, 18)
        t2 == Eval_shr(s0a, 3)
        s0 == Eval_xor(Eval_xor(t0, t1), t2)
        s1a == ws[n - 2]
        u0 == Eval_rotr(s1a, 17)
        u1 == Eval_rotr(s1a, 19)
        u2 == Eval_shr(s1a, 10)
        s1 == Eval_xor(Eval_xor(u0, u1), u2)
        r0 == Eval_wrapping_add(ws[n - 16], s0)
        r1 == Eval_wrapping_add(r0, ws[n - 7])
    IN  Eval_wrapping_add(r1, s1)

\* sha256_update, lines 91-123: one round of the compression loop
Round(v, ws, n) ==
    LET s1 == Eval_xor(Eval_xor(Eval_rotr(v.e, 6), Eval_rotr(v.e, 11)),
                       Eval_rotr(v.e, 25))
        ch == Eval_xor(Eval_and(v.e, v.f), Eval_and(Eval_not(v.e), v.g))
        k == Eval_constant(K[n + 1])
        temp1 == Eval_wrapping_add(
                   Eval_wrapping_add(
                     Eval_wrapping_add(Eval_wrapping_add(v.h, s1), ch), k), ws[n])
        s0 == Eval_xor(Eval_xor(Eval_rotr(v.a, 2), Eval_rotr(v.a, 13)),
                       Eval_rotr(v.a, 22))
        maj == Eval_xor(Eval_xor(Eval_and(v.a, v.b), Eval_and(v.a, v.c)),
                        Eval_and(v.b, v.c))
        temp2 == Eval_wrapping_add(s0, maj)
    IN  [h |-> v.g, g |-> v.f, f |-> v.e, e |-> Eval_wrapping_add(v.d, temp1),
         d |-> v.c, c |-> v.b, b |-> v.a, a |-> Eval_wrapping_add(temp1, temp2)]

\* test_empty: the padded empty message
EmptyMessageChunk == [k \in 1..16 |-> IF k = 1 THEN U32(32768, 0) ELSE U32Zero]

\* the padded message "abc"
AbcChunk ==
    [k \in 1..16 |-> IF k = 1 THEN U32(24930, 25472)
                     ELSE IF k = 16 THEN U32(0, 24) ELSE U32Zero]

ShaChunks == {EmptyMessageChunk, AbcChunk}

ShaInit ==
    /\ pc = "start"
    /\ chunk \in ShaChunks
    /\ hasher = Sha256_new
    /\ w = <<>>
    /\ wv = <<>>
    /\ i = 0
    /\ rendered = ""

\* lines 56-59
ShaStart ==
    /\ pc = "start"
    /\ w' = [n \in 0..63 |-> IF n < 16 THEN Eval_constant(chunk[n + 1])
                                       ELSE Eval_constant(U32Zero)]
    /\ i' = 16
    /\ pc' = "schedule"
    /\ UNCHANGED <<r1csVars, bin, chunk, hasher, wv, rendered>>

\* lines 60-77
ShaSchedule ==
    /\ pc = "schedule"
    /\ i < 64
    /\ w' = [w EXCEPT ![i] = ScheduleWord(w, i)]
    /\ i' = i + 1
    /\ UNCHANGED <<r1csVars, bin, pc, chunk, hasher, wv, rendered>>

\* lines 80-87
ShaWorking ==
    /\ pc = "schedule"
    /\ i = 64
    /\ wv' = [a |-> hasher[1], b |-> hasher[2], c |-> hasher[3], d |-> hasher[4],
              e |-> hasher[5], f |-> hasher[6], g |-> hasher[7], h |-> hasher[8]]
    /\ i' = 0
    /\ pc' = "compress"
    /\ UNCHANGED <<r1csVars, bin, chunk, hasher, w, rendered>>

\* lines 90-124
ShaRound ==
    /\ pc = "compress"
    /\ i < 64
    /\ wv' = Round(wv, w, i)
    /\ i' = i + 1
    /\ UNCHANGED <<r1csVars, bin, pc, chunk, hasher, w, rendered>>

\* lines 127-134
ShaFinish ==
    /\ pc = "compress"
    /\ i = 64
    /\ hasher' = <<Eval_wrapping_add(hasher[1], wv.a), Eval_wrapping_add(hasher[2], wv.b),
                   Eval_wrapping_add(hasher[3], wv.c), Eval_wrapping_add(hasher[4], wv.d),
                   Eval_wrapping_add(hasher[5], wv.e), Eval_wrapping_add(hasher[6], wv.f),
                   Eval_wrapping_add(hasher[7], wv.g), Eval_wrapping_add(hasher[8], wv.h)>>
    /\ pc' = "done"
    /\ UNCHANGED <<r1csVars, bin, chunk, w, wv, i, rendered>>

ShaFullInit == R1csIdle /\ BinIdle /\ ShaInit

ShaNext == ShaStart \/ ShaSchedule \/ ShaWorking \/ ShaRound \/ ShaFinish

SpecSha == ShaFullInit /\ [][ShaNext]_vars

(***************************************************************************)
(* C6: from Sha256::new(), one sha256_update on Eval with the chunk        *)
(* [0x80000000, 0, ..., 0] leaves the state whose rendering is the SHA-256 *)
(* digest of the empty message.                                            *)
(***************************************************************************)
C6_EmptyMessageDigest ==
    (pc = "done" /\ chunk = EmptyMessageChunk) =>
        Sha256_fmt(hasher)
          = "e3b0c44298fc1c149afbf4c8996fb92427ae41e4649b934ca495991b7852b855"

C6_Witness == pc = "done" /\ chunk = EmptyMessageChunk

\* the rendering of the state after the padded message "abc"
AbcDigest ==
    pc = "done" /\ chunk = AbcChunk =>
        Sha256_fmt(hasher)
          = "ba7816bf8f01cfea414140de5dae2223b00361a396177a9cb410ff61f20015ad"

(***************************************************************************)
(* crypto/hash/sha2.rs: format!("{}", hasher) on a hash state.             *)
(***************************************************************************)
\* words with and without leading zero hexadecimal digits
FmtWords ==
    {U32(0, 0), U32(0, 1), U32(0, 18), U32(0, 35), U32(0, 3), U32(4095, 65535),
     U32(43981, 61185), U32(65535, 65535)}

FmtStates ==
    {<<a, b, c, c, c, c, c, c>> : a \in FmtWords, b \in FmtWords,
                                   c \in {U32(0, 0), U32(58288, 50242)}}

FmtInit ==
    /\ R1csIdle
    /\ BinIdle
    /\ pc = "state"
    /\ chunk = <<>>
    /\ hasher \in FmtStates
    /\ w = <<>>
    /\ wv = <<>>
    /\ i = 0
    /\ rendered = ""

\* test_empty, line 170: format!("{}", hasher)
Display ==
    /\ pc = "state"
    /\ rendered' = Sha256_fmt(hasher)
    /\ pc' = "shown"
    /\ UNCHANGED <<r1csVars, bin, chunk, hasher, w, wv, i>>

FmtNext == Display

SpecFmt == FmtInit /\ [][FmtNext]_vars

\* a word as 8 hexadecimal digits, leading zeros included
PaddedHex(x) ==
    HexDigits[BitsValue(x, 28, 4) + 1] \o HexDigits[BitsValue(x, 24, 4) + 1]
        \o HexDigits[BitsValue(x, 20, 4) + 1] \o HexDigits[BitsValue(x, 16, 4) + 1]
        \o HexDigits[BitsValue(x, 12, 4) + 1] \o HexDigits[BitsValue(x, 8, 4) + 1]
        \o HexDigits[BitsValue(x, 4, 4) + 1] \o HexDigits[BitsValue(x, 0, 4) + 1]

(***************************************************************************)
(* C11: the Display rendering of any hash state is exactly 64 lower-case   *)
(* hexadecimal characters, the 8 words in order as 8 digits each with      *)
(* leading zeros, and distinct states render to distinct strings.          *)
(***************************************************************************)
C11_DisplayIs64HexDigits ==
    pc = "shown" =>
        /\ Len(rendered) = 64
        /\ rendered = PaddedHex(hasher[1]) \o PaddedHex(hasher[2])
                        \o PaddedHex(hasher[3]) \o PaddedHex(hasher[4])
                        \o PaddedHex(hasher[5]) \o PaddedHex(hasher[6])
                        \o PaddedHex(hasher[7]) \o PaddedHex(hasher[8])
        /\ \A s \in FmtStates : s # hasher => Sha256_fmt(s) # rendered

\* C11's parts, each alone: the length, and distinct states giving
\* distinct strings
RenderedLength == pc = "shown" => Len(rendered) = 64

RenderedDistinct ==
    pc = "shown" => \A s \in FmtStates : s # hasher => Sha256_fmt(s) # rendered

=============================================================================
